---- MODULE Spec2Model ----
(***************************************************************************)
(* Model of t3_scraper.py: the trend scraper that fetches the trends page, *)
(* filters hashtags, enriches them (engagement score, sentiment, post      *)
(* count) and replaces the 'Twitter' rows of the remote table.             *)
(*                                                                         *)
(* Python strings are sequences of one-character strings.  Scores are      *)
(* integers in fixed point: the running engagement total is counted in     *)
(* units of 1/ScoreUnit, the rounded score in hundredths, polarity in      *)
(* thousandths.                                                            *)
(***************************************************************************)
EXTENDS Integers, Sequences, FiniteSets, TLC

(***************************************************************************)
(* Bounds of the model.                                                    *)
(***************************************************************************)
\* longest count string drawn as an input of the pure functions
MaxLen == 3
\* most trend links on a page scanned by get_trending_topics on its own
MaxLinks == 10
\* most trend links on the page of a whole run
MaxRunLinks == 3
\* most collected links of one page that carry a tweet-count span
MaxCounted == 1
\* Python integers are unbounded; the model represents every value above
\* IntCap by IntCap (only sign, zero and the 25000 cap are ever inspected)
IntCap == 2000000000

(***************************************************************************)
(* Strings.                                                                *)
(***************************************************************************)
UpperChars == <<"A","B","C","D","E","F","G","H","I","J","K","L","M","N","O","P","Q","R","S","T","U","V","W","X","Y","Z">>

LowerChars == <<"a","b","c","d","e","f","g","h","i","j","k","l","m","n","o","p","q","r","s","t","u","v","w","x","y","z">>

DigitChars == <<"0","1","2","3","4","5","6","7","8","9">>

\* stand-in for the code points U+0900..U+097F
DevanagariChars == {"U+0928", "U+092E"}

Min(a, b) == IF a < b THEN a ELSE b

Max(a, b) == IF a > b THEN a ELSE b

Range(s) == {s[i] : i \in 1..Len(s)}

\* str.lower() and str.upper(), character by character
LowerChar(c) ==
    IF \E i \in 1..Len(UpperChars) : UpperChars[i] = c
    THEN LowerChars[CHOOSE i \in 1..Len(UpperChars) : UpperChars[i] = c]
    ELSE c

UpperChar(c) ==
    IF \E i \in 1..Len(LowerChars) : LowerChars[i] = c
    THEN UpperChars[CHOOSE i \in 1..Len(LowerChars) : LowerChars[i] = c]
    ELSE c

Lower(s) == [i \in 1..Len(s) |-> LowerChar(s[i])]

Upper(s) == [i \in 1..Len(s) |-> UpperChar(s[i])]

\* str.isdigit() on one character
IsDigit(c) == \E i \in 1..Len(DigitChars) : DigitChars[i] = c

DigitValue(c) == (CHOOSE i \in 1..Len(DigitChars) : DigitChars[i] = c) - 1

\* `sub in s`
Contains(s, sub) ==
    \E i \in 0..(Len(s) - Len(sub)) :
        \A j \in 1..Len(sub) : s[i + j] = sub[j]

\* any(k in s for k in keys)
ContainsAny(s, keys) == \E k \in 1..Len(keys) : Contains(s, keys[k])

\* s.replace(c, rep) for a one-character c
RECURSIVE ReplaceChar(_, _, _)
ReplaceChar(s, c, rep) ==
    IF s = <<>> THEN <<>>
    ELSE (IF Head(s) = c THEN rep ELSE <<Head(s)>>) \o ReplaceChar(Tail(s), c, rep)

\* ''.join(filter(str.isdigit, s))
FilterDigits(s) == SelectSeq(s, IsDigit)

\* str.strip() for ASCII blanks
RECURSIVE LStrip(_)
LStrip(s) == IF s # <<>> /\ Head(s) = " " THEN LStrip(Tail(s)) ELSE s

RECURSIVE RStrip(_)
RStrip(s) ==
    IF s # <<>> /\ s[Len(s)] = " " THEN RStrip(SubSeq(s, 1, Len(s) - 1)) ELSE s

Strip(s) == RStrip(LStrip(s))

\* str(n) for n >= 0
RECURSIVE Str(_)
Str(n) ==
    IF n < 10 THEN <<DigitChars[n + 1]>>
    ELSE Str(n \div 10) \o <<DigitChars[(n % 10) + 1]>>

RECURSIVE Pow10(_)
Pow10(n) == IF n = 0 THEN 1 ELSE 10 * Pow10(n - 1)

RECURSIVE Pow5(_)
Pow5(n) == IF n = 0 THEN 1 ELSE 5 * Pow5(n - 1)

\* a * b, represented by IntCap when it exceeds IntCap (a, b >= 0)
SatMul(a, b) ==
    IF a = 0 \/ b = 0 THEN 0
    ELSE IF a > IntCap \div b THEN IntCap ELSE a * b

\* value of a non-empty string of digits
RECURSIVE DigitsValue(_)
DigitsValue(ds) ==
    IF ds = <<>> THEN 0
    ELSE LET hi == SatMul(DigitsValue(SubSeq(ds, 1, Len(ds) - 1)), 10)
             d  == DigitValue(ds[Len(ds)])
         IN  IF hi > IntCap - d THEN IntCap ELSE hi + d

NA == <<"N","/","A">>


\* the value None, which is not a str
None == <<"None">>

\* outcome of a Python call: a returned value or a raised exception
Return(v) == [raised |-> FALSE, val |-> v]

Raise == [raised |-> TRUE, val |-> 0]

(***************************************************************************)
(* is_indian_text, generate_twitter_search_link, get_hashtag_post_content  *)
(***************************************************************************)
indian_terms ==
    << <<"i","n","d","i","a">>,
       <<"b","h","a","r","a","t">>,
       <<"h","i","n","d","u">>,
       <<"d","e","l","h","i">>,
       <<"m","u","m","b","a","i">>,
       <<"b","a","n","g","a","l","o","r","e">>,
       <<"c","h","e","n","n","a","i">>,
       <<"k","o","l","k","a","t","a">> >>

is_indian_text(text) ==
    IF \E i \in 1..Len(text) : text[i] \in DevanagariChars THEN TRUE
    ELSE IF ContainsAny(Lower(text), indian_terms) THEN TRUE
    ELSE FALSE

generate_twitter_search_link(topic) ==
    <<"https://twitter.com/search?q=">> \o ReplaceChar(topic, "#", <<"%","2","3">>)

\* keys of sample_contents in insertion order, 'default' last
sample_keys ==
    << <<"e","l","e","c","t","i","o","n">>,
       <<"f","l","o","o","d">>,
       <<"d","h","a","r","m","a">>,
       <<"f","o","o","t","b","a","l","l">>,
       <<"b","o","l","l","y","w","o","o","d">>,
       <<"b","a","t","r","a">>,
       <<"d","e","f","a","u","l","t">> >>

\* the canned sentence is named by the key of its template and the text
\* substituted into it
get_hashtag_post_content(hashtag) ==
    LET hashtag_clean == ReplaceChar(hashtag, "#", <<>>)
        hashtag_lower == Lower(hashtag_clean)
        hits == {k \in 1..Len(sample_keys) : Contains(hashtag_lower, sample_keys[k])}
    IN  IF hits # {}
        THEN [template |-> sample_keys[CHOOSE k \in hits : \A h \in hits : k <= h],
              about |-> hashtag_clean]
        ELSE [template |-> sample_keys[Len(sample_keys)], about |-> hashtag_clean]

(***************************************************************************)
(* analyze_hashtag_sentiment.  The TextBlob call is external: blob is its  *)
(* outcome, a polarity in thousandths or an exception.  None.replace       *)
(* raises inside the try as well.                                          *)
(***************************************************************************)
\* 0.05 in thousandths
PolarityThreshold == 50

\* the thresholds compared with >= and <=
analyze_hashtag_sentiment_inclusive(hashtag, blob) ==
    IF hashtag = None \/ blob.raised
    THEN [label |-> "Neutral", polarity |-> 0]
    ELSE LET polarity == blob.val
         IN  IF polarity >= PolarityThreshold
             THEN [label |-> "Positive", polarity |-> polarity]
             ELSE IF polarity <= -PolarityThreshold
             THEN [label |-> "Negative", polarity |-> polarity]
             ELSE [label |-> "Neutral", polarity |-> polarity]

analyze_hashtag_sentiment(hashtag, blob) ==
    IF hashtag = None \/ blob.raised
    THEN [label |-> "Neutral", polarity |-> 0]
    ELSE LET polarity == blob.val
         IN  IF polarity > PolarityThreshold
             THEN [label |-> "Positive", polarity |-> polarity]
             ELSE IF polarity < -PolarityThreshold
             THEN [label |-> "Negative", polarity |-> polarity]
             ELSE [label |-> "Neutral", polarity |-> polarity]

(***************************************************************************)
(* parse_post_count                                                        *)
(***************************************************************************)
\* float(s) for s made of digits, '.', '-' and letters: the sign, the
\* digits of the mantissa and the number of digits after the point
PyFloat(s) ==
    LET body == IF s # <<>> /\ Head(s) = "-" THEN Tail(s) ELSE s
        dots == {i \in 1..Len(body) : body[i] = "."}
    IN  IF /\ \A i \in 1..Len(body) : IsDigit(body[i]) \/ body[i] = "."
           /\ Cardinality(dots) <= 1
           /\ \E i \in 1..Len(body) : IsDigit(body[i])
        THEN Return([neg |-> s # <<>> /\ Head(s) = "-",
                     mant |-> DigitsValue(FilterDigits(body)),
                     frac |-> IF dots = {} THEN 0
                              ELSE Len(body) - (CHOOSE i \in dots : TRUE)])
        ELSE Raise

\* int(f * 10^zeros).  The product of the decimal and the power of ten is
\* computed in binary floating point: when the decimal has no exact binary
\* form and the true product is an integer, the float product is that
\* integer or falls just below it (below), and int() truncates.
FloatTimesToInt(f, zeros, below) ==
    LET exact == IF f.frac <= zeros
                 THEN SatMul(f.mant, Pow10(zeros - f.frac))
                 ELSE f.mant \div Pow10(f.frac - zeros)
        whole == f.frac <= zeros \/ f.mant % Pow10(f.frac - zeros) = 0
        inexact == f.frac > 0 /\ f.mant % Pow5(f.frac) # 0
        mag == IF below /\ inexact /\ whole /\ exact > 0 THEN exact - 1 ELSE exact
    IN  IF f.neg THEN 0 - mag ELSE mag

\* int(s) for a string of digits
PyInt(s) == IF s = <<>> THEN Raise ELSE Return(DigitsValue(s))

\* the body of the try block
parse_post_count_try(count_str, below) ==
    LET count_clean == ReplaceChar(count_str, ",", <<>>)
        upper == Upper(count_clean)
    IN  IF "M" \in Range(upper)
        THEN LET f == PyFloat(ReplaceChar(upper, "M", <<>>))
             IN  IF f.raised THEN Raise ELSE Return(FloatTimesToInt(f.val, 6, below))
        ELSE IF "K" \in Range(upper)
        THEN LET f == PyFloat(ReplaceChar(upper, "K", <<>>))
             IN  IF f.raised THEN Raise ELSE Return(FloatTimesToInt(f.val, 3, below))
        ELSE PyInt(FilterDigits(count_clean))

\* the function without its try/except
parse_post_count_noexcept(count_str, below) ==
    IF count_str = NA \/ count_str = <<>> \/ count_str = None
    THEN Return(0)
    ELSE parse_post_count_try(count_str, below)

parse_post_count(count_str, below) ==
    IF count_str = NA \/ count_str = <<>> \/ count_str = None
    THEN Return(0)
    ELSE LET r == parse_post_count_try(count_str, below)
         IN  IF r.raised THEN Return(0) ELSE r

(***************************************************************************)
(* calculate_engagement_score                                              *)
(***************************************************************************)
trending_keywords ==
    << <<"e","l","e","c","t","i","o","n">>,
       <<"b","r","e","a","k","i","n","g">>,
       <<"u","r","g","e","n","t">>,
       <<"l","i","v","e">>,
       <<"u","p","d","a","t","e">>,
       <<"n","e","w","s">> >>

indian_keywords ==
    << <<"i","n","d","i","a">>,
       <<"i","n","d","i","a","n">>,
       <<"b","h","a","r","a","t","h">>,
       <<"d","e","l","h","i">>,
       <<"m","u","m","b","a","i">>,
       <<"m","o","d","i">>,
       <<"b","j","p">>,
       <<"c","o","n","g","r","e","s","s">> >>

marker_substrings ==
    << <<"2","0","2","4">>,
       <<"2","0","2","3">>,
       <<"!">>,
       <<"@">> >>

\* (tweet_count / 10000) * 2
CountDivisor == 10000

CountFactor == 2

\* the running total is counted in units of CountFactor/CountDivisor, in
\* which the count term is tweet_count itself
ScoreUnit == CountDivisor \div CountFactor

\* round(x, 2) of a total in units of 1/ScoreUnit, in hundredths.  The
\* total is a binary float: a value half-way between two hundredths is
\* stored just above or just below it, so it rounds either way (up).
Round2(x, up) ==
    LET step == ScoreUnit \div 100
        q == x \div step
        r == x % step
    IN  IF 2 * r < step THEN q
        ELSE IF 2 * r > step THEN q + 1
        ELSE IF up THEN q + 1 ELSE q

\* the count term of the score
count_term(count_str) ==
    IF count_str # NA /\ count_str # <<>> /\ count_str # None
    THEN LET replaced == ReplaceChar(ReplaceChar(ReplaceChar(count_str,
                             "K", <<"0","0","0">>),
                             "M", <<"0","0","0","0","0","0">>),
                             ",", <<>>)
             count_clean == FilterDigits(replaced)
         IN  IF count_clean # <<>>
             THEN LET tweet_count == DigitsValue(count_clean)
                  IN  IF tweet_count > 0
                      THEN Min(5 * ScoreUnit, Max(0, tweet_count))
                      ELSE 0
             ELSE 0
    ELSE 0

\* the body of the outer try block; None.lower() raises
calculate_engagement_score_try(topic, count_str, up) ==
    IF topic = None THEN Raise
    ELSE LET topic_lower == Lower(topic)
             total == ScoreUnit
                      + count_term(count_str)
                      + (IF ContainsAny(topic_lower, trending_keywords)
                         THEN (3 * ScoreUnit) \div 2 ELSE 0)
                      + (IF ContainsAny(topic_lower, indian_keywords)
                         THEN ScoreUnit ELSE 0)
                      + (IF Len(topic) > 15 THEN ScoreUnit \div 2 ELSE 0)
                      + (IF ContainsAny(topic, marker_substrings)
                         THEN ScoreUnit \div 2 ELSE 0)
         IN  Return(Max(100, Min(1000, Round2(total, up))))

\* the exception path returning 0.0
calculate_engagement_score_zero(topic, count_str, up) ==
    LET r == calculate_engagement_score_try(topic, count_str, up)
    IN  IF r.raised THEN 0 ELSE r.val

\* the score in hundredths
calculate_engagement_score(topic, count_str, up) ==
    LET r == calculate_engagement_score_try(topic, count_str, up)
    IN  IF r.raised THEN 100 ELSE r.val


(***************************************************************************)
(* The run: main -> get_trending_topics -> insert_fresh_data_only.         *)
(***************************************************************************)
VARIABLES
    pc,               \* position of the run
    url_index,        \* index in urls_to_try of the URL of this iteration
    fetched,          \* the requests sent so far: URL, and whether the
                      \* response had trend links
    link_index,       \* number of the link the scan reads next
    trending_topics,  \* the list built by the scan / returned to main
    seen_topics,      \* the set of accepted texts
    calls,            \* the calls issued against table 'twitter', in order
    table,            \* the rows of the remote table 'twitter'
    processed_topics, \* the records built by insert_fresh_data_only
    call,             \* a call of a pure function: its arguments
    ret               \* what that call returned

vars == <<pc, url_index, fetched, link_index, trending_topics,
          seen_topics, calls, table, processed_topics, call, ret>>

urls_to_try ==
    << "https://trends24.in/india/",
       "http://trends24.in/india/",
       "https://www.trends24.in/india/" >>

\* uuid4 of this process; rows of earlier runs carry other identifiers
SCRAPE_VERSION_ID == "run-1"

\* len(trending_topics) >= 9: break
TopicCap == 9

\* len(trending_topics) < 5 admits a hashtag that is not Indian
AnyTopicLimit == 5

\* rows the table may hold when the run starts
OldRow ==
    [platform |-> "Twitter",
     topic_hashtag |-> <<"#","o","l","d">>,
     engagement_score |-> 100,
     sentiment_polarity |-> 0,
     sentiment_label |-> "Neutral",
     posts |-> 0,
     views |-> 0,
     metadata |-> [twitter_link |-> generate_twitter_search_link(<<"#","o","l","d">>),
                   post_content |-> get_hashtag_post_content(<<"#","o","l","d">>),
                   raw_count |-> NA],
     version_id |-> "run-0"]

OtherRow == [OldRow EXCEPT !.platform = "Instagram"]

\* the texts of the links of a page.  The scan only tests a text for
\* equality with accepted texts, for its first character and with
\* is_indian_text, so texts of one kind are interchangeable: a link shows
\* the first text of its kind not accepted yet or, all repeats being
\* skipped alike, the first accepted text of its kind.
LinkKinds ==
    { <<"#","D","e","l","h","i">>,
      <<" ","#","i","p","l">>,
      <<"i","p","l">> }

LinkText(kind, n) == kind \o Str(n) \o <<" ">>

FirstFresh(kind, seen) ==
    CHOOSE n \in 1..(Cardinality(seen) + 1) :
        /\ Strip(LinkText(kind, n)) \notin seen
        /\ \A m \in 1..(n - 1) : Strip(LinkText(kind, m)) \in seen

PageLinkTexts(seen) ==
    UNION {{LinkText(kind, n) : n \in {1, FirstFresh(kind, seen)}} : kind \in LinkKinds}

\* the tweet-count span of a link's <li>: absent, blank, or a count
CountSpans ==
    { [present |-> FALSE, text |-> <<>>],
      [present |-> TRUE, text |-> <<" ">>],
      [present |-> TRUE, text |-> <<" ","2","5","K"," ">>] }

\* outcomes of TextBlob(clean_text).sentiment.polarity during a run
RunBlobs == {Raise, Return(0), Return(800)}

NoCall == [fn |-> "none", topic |-> <<>>, count |-> <<>>, blob |-> Return(0)]

NoRet == [done |-> FALSE, out |-> 0]

Init ==
    /\ pc = "fetch"
    /\ url_index = 1
    /\ fetched = <<>>
    /\ link_index = 0
    /\ trending_topics = <<>>
    /\ seen_topics = {}
    /\ calls = <<>>
    /\ table \in {{OtherRow}, {OldRow, OtherRow}}
    /\ processed_topics = <<>>
    /\ call = NoCall
    /\ ret = NoRet

\* the loop over urls_to_try giving up one URL early
next_url_short ==
    IF url_index < Len(urls_to_try) - 1
    THEN /\ url_index' = url_index + 1
         /\ pc' = "fetch"
    ELSE /\ pc' = "returned_all_failed"
         /\ UNCHANGED url_index

\* `continue` of the loop over urls_to_try, or its end (line 120)
next_url ==
    IF url_index < Len(urls_to_try)
    THEN /\ url_index' = url_index + 1
         /\ pc' = "fetch"
    ELSE /\ pc' = "returned_all_failed"
         /\ UNCHANGED url_index

\* requests.get / raise_for_status raises a RequestException
FetchRequestError ==
    /\ pc = "fetch"
    /\ fetched' = Append(fetched, [url |-> urls_to_try[url_index], links |-> FALSE])
    /\ next_url
    /\ UNCHANGED <<link_index, trending_topics, seen_topics,
                   calls, table, processed_topics, call, ret>>

\* any other exception before the links are known
FetchOtherError ==
    /\ pc = "fetch"
    /\ fetched' = Append(fetched, [url |-> urls_to_try[url_index], links |-> FALSE])
    /\ next_url
    /\ UNCHANGED <<link_index, trending_topics, seen_topics,
                   calls, table, processed_topics, call, ret>>

\* the page has no a.trend-link element
FetchNoLinks ==
    /\ pc = "fetch"
    /\ fetched' = Append(fetched, [url |-> urls_to_try[url_index], links |-> FALSE])
    /\ next_url
    /\ UNCHANGED <<link_index, trending_topics, seen_topics,
                   calls, table, processed_topics, call, ret>>

\* the page has at least one trend link: the scan starts
FetchLinks ==
    /\ pc = "fetch"
    /\ fetched' = Append(fetched, [url |-> urls_to_try[url_index], links |-> TRUE])
    /\ link_index' = 1
    /\ trending_topics' = <<>>
    /\ seen_topics' = {}
    /\ pc' = "scan"
    /\ UNCHANGED <<url_index, calls, table, processed_topics, call, ret>>

\* whether the scan takes the link: lines 86-89
accepts(trend_text, topics, seen) ==
    /\ trend_text \notin seen
    /\ trend_text # <<>> /\ Head(trend_text) = "#"
    /\ (is_indian_text(trend_text) \/ Len(topics) < AnyTopicLimit)

\* the break taken one element late
scan_breaks_late(topics) == Len(topics) > TopicCap

\* the break of line 108
scan_breaks(topics) == Len(topics) >= TopicCap

\* lines 90-98
tweet_count_of(span) ==
    IF span.present /\ Strip(span.text) # <<>> THEN Strip(span.text) ELSE NA

\* one iteration of `for link in trend_links`; the link read is the last of
\* the page (last) or not, and a page has at most maxLinks links
ScanLink(maxLinks) ==
    /\ pc = "scan"
    /\ \E text \in PageLinkTexts(seen_topics), span \in CountSpans, last \in BOOLEAN :
        LET trend_text == Strip(text)
            tweet_count == tweet_count_of(span)
            taken == accepts(trend_text, trending_topics, seen_topics)
            topics == IF taken
                      THEN Append(trending_topics,
                                  [topic |-> trend_text,
                                   count |-> tweet_count,
                                   twitter_link |-> generate_twitter_search_link(trend_text)])
                      ELSE trending_topics
        IN  /\ link_index >= maxLinks => last
            /\ taken /\ tweet_count # NA =>
                Cardinality({i \in 1..Len(trending_topics) :
                                trending_topics[i].count # NA}) < MaxCounted
            /\ trending_topics' = topics
            /\ seen_topics' = IF taken THEN seen_topics \cup {trend_text} ELSE seen_topics
            /\ IF (taken /\ scan_breaks(topics)) \/ last
               THEN pc' = "returned_page" /\ UNCHANGED link_index
               ELSE pc' = "scan" /\ link_index' = link_index + 1
    /\ UNCHANGED <<url_index, fetched, calls, table, processed_topics, call, ret>>

\* main and insert_fresh_data_only without their emptiness guards
Main_unguarded ==
    /\ pc \in {"returned_page", "returned_all_failed"}
    /\ pc' = "clear"
    /\ link_index' = 0
    /\ UNCHANGED <<url_index, fetched, trending_topics,
                   seen_topics, calls, table, processed_topics, call, ret>>

\* main, lines 321-329, and the guard of insert_fresh_data_only; the loop
\* variable of get_trending_topics is gone once it has returned
Main ==
    /\ pc \in {"returned_page", "returned_all_failed"}
    /\ IF trending_topics = <<>> THEN pc' = "done" ELSE pc' = "clear"
    /\ link_index' = 0
    /\ UNCHANGED <<url_index, fetched, trending_topics,
                   seen_topics, calls, table, processed_topics, call, ret>>

\* clear_all_supabase_data: the delete executes
ClearOk ==
    /\ pc = "clear"
    /\ calls' = Append(calls, [op |-> "delete", rows |-> <<>>, ok |-> TRUE])
    /\ table' = {r \in table : r.platform # "Twitter"}
    /\ processed_topics' = <<>>
    /\ pc' = IF trending_topics = <<>> THEN "insert" ELSE "enrich"
    /\ UNCHANGED <<url_index, fetched, link_index, trending_topics,
                   seen_topics, call, ret>>

\* clear_all_supabase_data: the delete raises; the exception is printed
ClearError ==
    /\ pc = "clear"
    /\ calls' = Append(calls, [op |-> "delete", rows |-> <<>>, ok |-> FALSE])
    /\ processed_topics' = <<>>
    /\ pc' = IF trending_topics = <<>> THEN "insert" ELSE "enrich"
    /\ UNCHANGED <<url_index, fetched, link_index, trending_topics,
                   seen_topics, table, call, ret>>

\* lines 264-296: the record built from one topic
processed_topic(topic, blob, up, below) ==
    LET sentiment == analyze_hashtag_sentiment(topic.topic, blob)
    IN  [platform |-> "Twitter",
         topic_hashtag |-> topic.topic,
         engagement_score |-> calculate_engagement_score(topic.topic, topic.count, up),
         sentiment_polarity |-> sentiment.polarity,
         sentiment_label |-> sentiment.label,
         posts |-> parse_post_count(topic.count, below).val,
         views |-> 0,
         metadata |-> [twitter_link |-> topic.twitter_link,
                       post_content |-> get_hashtag_post_content(topic.topic),
                       raw_count |-> topic.count],
         version_id |-> SCRAPE_VERSION_ID]

\* the record put at the front of the list
append_processed_front(done, record) == <<record>> \o done

\* line 298: processed_topics.append(processed_topic)
append_processed(done, record) == Append(done, record)

\* one iteration of `for i, topic in enumerate(topics_list)`
Enrich ==
    /\ pc = "enrich"
    /\ \E blob \in RunBlobs, up \in BOOLEAN, below \in BOOLEAN :
        LET topic == trending_topics[Len(processed_topics) + 1]
            record == processed_topic(topic, blob, up, below)
        IN  /\ processed_topics' = append_processed(processed_topics, record)
            /\ pc' = IF Len(processed_topics) + 1 = Len(trending_topics)
                     THEN "insert" ELSE "enrich"
    /\ UNCHANGED <<url_index, fetched, link_index, trending_topics,
                   seen_topics, calls, table, call, ret>>

\* line 304: the bulk insert executes
InsertOk ==
    /\ pc = "insert"
    /\ calls' = Append(calls, [op |-> "insert", rows |-> processed_topics, ok |-> TRUE])
    /\ table' = table \cup Range(processed_topics)
    /\ pc' = "done"
    /\ UNCHANGED <<url_index, fetched, link_index, trending_topics,
                   seen_topics, processed_topics, call, ret>>

\* line 304: the bulk insert raises; the exception is printed (line 313)
InsertError ==
    /\ pc = "insert"
    /\ calls' = Append(calls, [op |-> "insert", rows |-> processed_topics, ok |-> FALSE])
    /\ pc' = "done"
    /\ UNCHANGED <<url_index, fetched, link_index, trending_topics,
                   seen_topics, table, processed_topics, call, ret>>

\* a whole run, on pages of at most MaxRunLinks links
Next ==
    \/ FetchRequestError
    \/ FetchOtherError
    \/ FetchNoLinks
    \/ FetchLinks
    \/ ScanLink(MaxRunLinks)
    \/ Main
    \/ ClearOk
    \/ ClearError
    \/ Enrich
    \/ InsertOk
    \/ InsertError

Spec == Init /\ [][Next]_vars

\* get_trending_topics on its own, on pages of at most MaxLinks links
NextScan ==
    \/ FetchRequestError
    \/ FetchOtherError
    \/ FetchNoLinks
    \/ FetchLinks
    \/ ScanLink(MaxLinks)

InitScan == Init /\ table = {OldRow, OtherRow}

SpecScan == InitScan /\ [][NextScan]_vars

(***************************************************************************)
(* The pure functions called on their own: the arguments are drawn by the  *)
(* initial state and one action applies each function.                     *)
(***************************************************************************)
CountChars == {"0", "2", "5", ".", ",", "-", "K", "k", "M", "a"}

RECURSIVE StringsUpTo(_)
StringsUpTo(n) ==
    IF n = 0 THEN {<<>>}
    ELSE LET shorter == StringsUpTo(n - 1)
         IN  shorter \cup {Append(s, c) : s \in shorter, c \in CountChars}

ExampleCounts ==
    { NA, None,
      <<"2",".","1","M">>, <<"2",".","1","K">>, <<"2",".","1","m">>,
      <<"2","5","k">>, <<"5","0","K">>,
      <<"1",",","2","3","4">>, <<"-","2",".","5","K">> }

CountInputs == StringsUpTo(MaxLen) \cup ExampleCounts

TopicInputs ==
    { None,
      <<>>,
      <<"#","B","r","e","a","k","i","n","g","N","e","w","s","2","0","2","4">>,
      <<"#","D","e","l","h","i","E","l","e","c","t","i","o","n","2","0","2","4">> }

BlobOutcomes ==
    {Raise} \cup
    {Return(p) : p \in {0 - 1000, 0 - PolarityThreshold - 1, 0 - PolarityThreshold,
                        1 - PolarityThreshold, 0, PolarityThreshold - 1,
                        PolarityThreshold, PolarityThreshold + 1, 1000}}

FnCalls ==
    {[fn |-> "parse_post_count", topic |-> <<>>, count |-> c, blob |-> Return(0)] :
        c \in CountInputs}
    \cup
    {[fn |-> "calculate_engagement_score", topic |-> t, count |-> c, blob |-> Return(0)] :
        t \in TopicInputs, c \in CountInputs}
    \cup
    {[fn |-> "analyze_hashtag_sentiment", topic |-> t, count |-> <<>>, blob |-> b] :
        t \in TopicInputs, b \in BlobOutcomes}

InitFn ==
    /\ pc = "fn"
    /\ url_index = 1
    /\ fetched = <<>>
    /\ link_index = 0
    /\ trending_topics = <<>>
    /\ seen_topics = {}
    /\ calls = <<>>
    /\ table = {}
    /\ processed_topics = <<>>
    /\ call \in FnCalls
    /\ ret = NoRet

CallParsePostCount ==
    /\ pc = "fn"
    /\ call.fn = "parse_post_count"
    /\ ~ret.done
    /\ \E below \in BOOLEAN :
        ret' = [done |-> TRUE, out |-> parse_post_count(call.count, below)]
    /\ UNCHANGED <<pc, url_index, fetched, link_index, trending_topics,
                   seen_topics, calls, table, processed_topics, call>>

CallCalculateEngagementScore ==
    /\ pc = "fn"
    /\ call.fn = "calculate_engagement_score"
    /\ ~ret.done
    /\ \E up \in BOOLEAN :
        ret' = [done |-> TRUE, out |-> calculate_engagement_score(call.topic, call.count, up)]
    /\ UNCHANGED <<pc, url_index, fetched, link_index, trending_topics,
                   seen_topics, calls, table, processed_topics, call>>

CallAnalyzeHashtagSentiment ==
    /\ pc = "fn"
    /\ call.fn = "analyze_hashtag_sentiment"
    /\ ~ret.done
    /\ ret' = [done |-> TRUE, out |-> analyze_hashtag_sentiment(call.topic, call.blob)]
    /\ UNCHANGED <<pc, url_index, fetched, link_index, trending_topics,
                   seen_topics, calls, table, processed_topics, call>>

NextFn ==
    \/ CallParsePostCount
    \/ CallCalculateEngagementScore
    \/ CallAnalyzeHashtagSentiment

SpecFn == InitFn /\ [][NextFn]_vars

(***************************************************************************)
(* Properties.                                                             *)
(***************************************************************************)
TwitterRows == {r \in table : r.platform = "Twitter"}

ParseReturned == call.fn = "parse_post_count" /\ ret.done

ScoreReturned == call.fn = "calculate_engagement_score" /\ ret.done

SentimentReturned == call.fn = "analyze_hashtag_sentiment" /\ ret.done

\* C1: after a run whose bulk insert succeeded, whatever the delete did, the
\* rows of the table with platform 'Twitter' are exactly the records built
\* in this run.
C1_StoreReplaced ==
    (pc = "done" /\ Len(calls) = 2 /\ calls[2].op = "insert" /\ calls[2].ok)
        => TwitterRows = Range(processed_topics)

\* C2: calculate_engagement_score returns a value in [1.0, 10.0] (100..1000
\* hundredths) for every topic and count, on the normal path and on the
\* exception path.
C2_ScoreInRange ==
    ScoreReturned => (ret.out >= 100 /\ ret.out <= 1000)

\* the score reaches 9.5: every bonus and a capped count term
C2_Witness ==
    /\ ScoreReturned
    /\ call.topic = <<"#","D","e","l","h","i","E","l","e","c","t","i","o","n","2","0","2","4">>
    /\ call.count = <<"5","0","K">>
    /\ ret.out = 950

\* C3: parse_post_count never returns a negative integer.
C3_PostsNonNegative ==
    ParseReturned => ret.out.val >= 0

\* strings parse_post_count cannot parse: no digit at all, or a K/M string
\* whose remainder is not a decimal number
C4_NoDigits(s) == \A i \in 1..Len(s) : ~IsDigit(s[i])

C4_Malformed(s) ==
    LET t == SelectSeq(s, LAMBDA c : c # ",")
        prefix == SubSeq(t, 1, Len(t) - 1)
    IN  /\ t # <<>>
        /\ t[Len(t)] \in {"K", "k", "M", "m"}
        /\ \/ \E i \in 1..Len(prefix) : prefix[i] = "a"
           \/ Cardinality({i \in 1..Len(prefix) : prefix[i] = "."}) > 1
           \/ \E i, j \in 1..Len(prefix) :
                /\ i < j
                /\ prefix[j] = "-"
                /\ (IsDigit(prefix[i]) \/ prefix[i] \in {".", "-"})
           \/ /\ \E i \in 1..Len(t) : t[i] \in {"K", "k"}
              /\ \E i \in 1..Len(t) : t[i] \in {"M", "m"}

C5_SentimentLabel ==
    SentimentReturned =>
        /\ ret.out.label \in {"Positive", "Negative", "Neutral"}
        /\ (ret.out.label = "Positive") <=> (ret.out.polarity > 50)
        /\ (ret.out.label = "Negative") <=> (ret.out.polarity < 0 - 50)
        /\ call.blob.raised => ret.out = [label |-> "Neutral", polarity |-> 0]
        /\ (~call.blob.raised /\ call.topic # None) => ret.out.polarity = call.blob.val

\* polarity exactly 0.05 gave Neutral
C5_Witness ==
    /\ SentimentReturned
    /\ ~call.blob.raised
    /\ call.blob.val = 50
    /\ call.topic # None
    /\ ret.out.label = "Neutral"

\* C6: the records handed to the insert are the raw trends in order: same
\* length, i-th topic and i-th raw count, all with this run's version_id.
C6_EnrichmentInOrder ==
    \A k \in 1..Len(calls) :
        calls[k].op = "insert" =>
            /\ Len(calls[k].rows) = Len(trending_topics)
            /\ \A i \in 1..Len(calls[k].rows) :
                /\ calls[k].rows[i].topic_hashtag = trending_topics[i].topic
                /\ calls[k].rows[i].metadata.raw_count = trending_topics[i].count
                /\ calls[k].rows[i].version_id = SCRAPE_VERSION_ID

\* three topics, with and without a count, were handed to the insert
C6_Witness ==
    /\ Len(calls) = 2
    /\ calls[2].op = "insert"
    /\ Len(calls[2].rows) = 3
    /\ calls[2].rows[1].metadata.raw_count = NA
    /\ calls[2].rows[2].metadata.raw_count # NA

\* C7: at every step of the scan and in the list returned, at most 9 topics
\* are collected, no two with the same text, each starting with '#'.
C7_ScanInvariant ==
    /\ Len(trending_topics) <= 9
    /\ \A i, j \in 1..Len(trending_topics) :
        i # j => trending_topics[i].topic # trending_topics[j].topic
    /\ \A i \in 1..Len(trending_topics) :
        /\ trending_topics[i].topic # <<>>
        /\ Head(trending_topics[i].topic) = "#"

\* the scan stopped at 9 topics after reading 10 links, one of them refused
C7_Witness ==
    /\ pc = "returned_page"
    /\ Len(trending_topics) = 9
    /\ link_index = 10

\* C8: the score equals the additive formula in which the count is
\* parse_post_count of the count string.
C8_FormulaScore(topic, count_str, up, below) ==
    LET count == parse_post_count(count_str, below).val
        topic_lower == Lower(topic)
        total == ScoreUnit
                 + (IF count > 0 THEN Min(5 * ScoreUnit, count) ELSE 0)
                 + (IF ContainsAny(topic_lower, trending_keywords)
                    THEN (3 * ScoreUnit) \div 2 ELSE 0)
                 + (IF ContainsAny(topic_lower, indian_keywords) THEN ScoreUnit ELSE 0)
                 + (IF Len(topic) > 15 THEN ScoreUnit \div 2 ELSE 0)
                 + (IF ContainsAny(topic, marker_substrings) THEN ScoreUnit \div 2 ELSE 0)
    IN  Max(100, Min(1000, Round2(total, up)))

C8_ScoreIsFormula ==
    (ScoreReturned /\ call.topic # None) =>
        \E up \in BOOLEAN, below \in BOOLEAN :
            ret.out = C8_FormulaScore(call.topic, call.count, up, below)

C10_Step ==
    /\ calls' # calls =>
        /\ trending_topics # <<>>
        /\ trending_topics' = trending_topics
        /\ Len(calls') = Len(calls) + 1
        /\ SubSeq(calls', 1, Len(calls)) = calls
    /\ table' # table => calls' # calls
    /\ \A k \in 1..Len(calls') :
        /\ calls'[k].op = "delete" => k = 1
        /\ calls'[k].op = "insert" => (k = 2 /\ calls'[1].op = "delete")
    /\ (pc \in {"returned_page", "returned_all_failed", "done"} /\ trending_topics = <<>>)
        => (calls = <<>> /\ calls' = <<>> /\ table' = table /\ trending_topics' = <<>>)

C10_FrameOnEmpty == [][C10_Step]_vars

\* a page with trend links but no accepted hashtag ended the run untouched
C10_Witness ==
    /\ pc = "done"
    /\ trending_topics = <<>>
    /\ fetched # <<>>
    /\ fetched[Len(fetched)].links
    /\ calls = <<>>
    /\ OldRow \in table

====
